---- MODULE Spec2Model ----
\* Verification model of re_gen::Queue (queue.h) and re_gen::Message_Processor
\* (message_processor.cxx).
EXTENDS Integers, Sequences, FiniteSets, TLC

\* ------------------------------------------------------------------
\* Bounds of the model
\* ------------------------------------------------------------------
\* pushes issued by each producer thread of the queue
MaxPush == 2
\* pop calls issued by each consumer thread of the queue
MaxPop == 2
\* wait_empty calls issued by each waiting thread of the queue
MaxWait == 1
\* calls of the broker's interface issued by all threads together
MaxCalls == 4

\* ------------------------------------------------------------------
\* State
\* ------------------------------------------------------------------
\* the queue of Part 1, the threads inside its operations, and the logs of
\* what was pushed and popped
VARIABLES q_mutex, q, qpc, qcount, push_log, pop_log

qvars == <<q_mutex, q, qpc, qcount, push_log, pop_log>>

\* the message processor of Part 2: the singleton pointer, the members of
\* Impl, the locals of loop and of ~Impl, the callers, and std::cerr;
\* remembered_tid is the message_parms.tid that was last assigned to
\* prev_tid, as it was before its conversion to int
VARIABLES singleton, ninst, impl, we_are_dead, is_processing, overall_verbosity,
          message_source_name_map, message_source_verbosity_map, message_queue,
          loop_pc, message_parms, tick_count, prev_msg, prev_tid, remembered_tid,
          prev_src,
          prev_severity, out, dtor_pc, dtor_i, dtor_timeout, cpc, ret, ncalls,
          reg_log, reg_overlap, popped, pushed

implvars == <<impl, we_are_dead, is_processing, overall_verbosity,
              message_source_name_map, message_source_verbosity_map, message_queue>>
loopvars == <<loop_pc, message_parms, tick_count, prev_msg, prev_tid, remembered_tid,
              prev_src,
              prev_severity, popped>>
dtorvars == <<dtor_pc, dtor_i, dtor_timeout>>
callvars == <<cpc, ret, ncalls, reg_log, reg_overlap>>
bvars == <<singleton, ninst, implvars, loopvars, dtorvars, callvars, out, pushed>>

vars == <<qvars, bvars>>

\* ------------------------------------------------------------------
\* Part 1: re_gen::Queue<Queue_Of_T>  (queue.h)
\* ------------------------------------------------------------------
\* threads that share the queue
QProducers == {"p1", "p2"}
QConsumers == {"c1", "c2"}
QWaiters == {"w1", "w2"}
QThreads == QProducers \cup QConsumers \cup QWaiters
\* the threads of the queue with one consumer
QSharers == QProducers \cup {"c1"} \cup QWaiters

\* value of q_mutex when no thread owns it
NoThread == "none"

\* the k-th object pushed by producer t
Item(t, k) == <<t, k>>

\* std::queue::push
q_push(queue, obj) == Append(queue, obj)

\* std::queue::front, as used by a buggy pop that would take the newest element
q_front_newest(queue) == queue[Len(queue)]

\* std::queue::front
q_front(queue) == queue[1]

\* std::queue::pop
q_pop(queue) == Tail(queue)

\* threads blocked in pthread_cond_wait(&q_push_cond)
q_push_cond == {t \in QThreads : qpc[t] = "pop_wait"}

\* threads blocked in pthread_cond_wait(&q_pop_cond)
q_pop_cond == {t \in QThreads : qpc[t] = "we_wait"}

\* pc of a thread that pthread_cond_signal / a spurious wake-up released
Woken(pcv) == IF pcv = "pop_wait" THEN "pop_relock" ELSE "we_relock"

\* pthread_cond_signal(cond): the program counters after one waiter of
\* cond (if any) is released; pcs already holds the caller's new pc
Signal(pcs, waiters) ==
  IF waiters = {} THEN {pcs}
  ELSE {[pcs EXCEPT ![w] = Woken(pcs[w])] : w \in waiters}

\* re_queue_helpers::lock::lock - pthread_mutex_lock
Lock(t, from, to) ==
  /\ qpc[t] = from
  /\ q_mutex = NoThread
  /\ q_mutex' = t
  /\ qpc' = [qpc EXCEPT ![t] = to]
  /\ UNCHANGED <<q, qcount, push_log, pop_log>>
  /\ UNCHANGED bvars

\* a thread enters push, pop or wait_empty and asks for the mutex
PushCall(t) ==
  /\ t \in QProducers
  /\ qpc[t] = "idle"
  /\ qcount[t] < MaxPush
  /\ qpc' = [qpc EXCEPT ![t] = "push_lock"]
  /\ qcount' = [qcount EXCEPT ![t] = @ + 1]
  /\ UNCHANGED <<q_mutex, q, push_log, pop_log>>
  /\ UNCHANGED bvars

PushLock(t) == Lock(t, "push_lock", "push_body")

\* a push without the pthread_cond_signal of line 83
PushBodyNoSignal(t) ==
  /\ qpc[t] = "push_body"
  /\ q_mutex = t
  /\ q' = q_push(q, Item(t, qcount[t]))
  /\ push_log' = Append(push_log, Item(t, qcount[t]))
  /\ qpc' = [qpc EXCEPT ![t] = "idle"]
  /\ q_mutex' = NoThread
  /\ UNCHANGED <<qcount, pop_log>>
  /\ UNCHANGED bvars

\* Queue::push - q.push(obj); pthread_cond_signal(&q_push_cond); unlock
PushBody(t) ==
  /\ qpc[t] = "push_body"
  /\ q_mutex = t
  /\ q' = q_push(q, Item(t, qcount[t]))
  /\ push_log' = Append(push_log, Item(t, qcount[t]))
  /\ qpc' \in Signal([qpc EXCEPT ![t] = "idle"], q_push_cond)
  /\ q_mutex' = NoThread
  /\ UNCHANGED <<qcount, pop_log>>
  /\ UNCHANGED bvars

PopCall(t) ==
  /\ t \in QConsumers
  /\ qpc[t] = "idle"
  /\ qcount[t] < MaxPop
  /\ qpc' = [qpc EXCEPT ![t] = "pop_lock"]
  /\ qcount' = [qcount EXCEPT ![t] = @ + 1]
  /\ UNCHANGED <<q_mutex, q, push_log, pop_log>>
  /\ UNCHANGED bvars

PopLock(t) == Lock(t, "pop_lock", "pop_check")

\* Queue::pop, !q.empty(): take the front, signal q_pop_cond when the
\* queue became empty, unlock and return the object
PopTake(t) ==
  /\ qpc[t] = "pop_check"
  /\ q_mutex = t
  /\ q # <<>>
  /\ pop_log' = Append(pop_log, [obj |-> q_front(q), by |-> t])
  /\ q' = q_pop(q)
  /\ IF q' = <<>>
       THEN qpc' \in Signal([qpc EXCEPT ![t] = "idle"], q_pop_cond)
       ELSE qpc' = [qpc EXCEPT ![t] = "idle"]
  /\ q_mutex' = NoThread
  /\ UNCHANGED <<qcount, push_log>>
  /\ UNCHANGED bvars

\* Queue::pop, q.empty(): pthread_cond_wait(&q_push_cond, &q_mutex)
PopWait(t) ==
  /\ qpc[t] = "pop_check"
  /\ q_mutex = t
  /\ q = <<>>
  /\ qpc' = [qpc EXCEPT ![t] = "pop_wait"]
  /\ q_mutex' = NoThread
  /\ UNCHANGED <<q, qcount, push_log, pop_log>>
  /\ UNCHANGED bvars

\* pthread_cond_wait returns with the mutex locked; pop loops to the test
PopRelock(t) == Lock(t, "pop_relock", "pop_check")

WaitEmptyCall(t) ==
  /\ t \in QWaiters
  /\ qpc[t] = "idle"
  /\ qcount[t] < MaxWait
  /\ qpc' = [qpc EXCEPT ![t] = "we_lock"]
  /\ qcount' = [qcount EXCEPT ![t] = @ + 1]
  /\ UNCHANGED <<q_mutex, q, push_log, pop_log>>
  /\ UNCHANGED bvars

WaitEmptyLock(t) == Lock(t, "we_lock", "we_check")

\* Queue::wait_empty, q.empty(): return (unlock)
WaitEmptyReturn(t) ==
  /\ qpc[t] = "we_check"
  /\ q_mutex = t
  /\ q = <<>>
  /\ qpc' = [qpc EXCEPT ![t] = "idle"]
  /\ q_mutex' = NoThread
  /\ UNCHANGED <<q, qcount, push_log, pop_log>>
  /\ UNCHANGED bvars

\* Queue::wait_empty, !q.empty(): pthread_cond_wait(&q_pop_cond, &q_mutex)
WaitEmptyWait(t) ==
  /\ qpc[t] = "we_check"
  /\ q_mutex = t
  /\ q # <<>>
  /\ qpc' = [qpc EXCEPT ![t] = "we_wait"]
  /\ q_mutex' = NoThread
  /\ UNCHANGED <<q, qcount, push_log, pop_log>>
  /\ UNCHANGED bvars

\* a wait_empty written with "if" in place of the loop: after the wait it
\* takes the mutex back and returns without testing q.empty() again
WaitEmptyRelockNoRetest(t) ==
  /\ qpc[t] = "we_relock"
  /\ q_mutex = NoThread
  /\ qpc' = [qpc EXCEPT ![t] = "idle"]
  /\ UNCHANGED <<q_mutex, q, qcount, push_log, pop_log>>
  /\ UNCHANGED bvars

\* pthread_cond_wait returns with the mutex locked; wait_empty loops to the test
WaitEmptyRelock(t) == Lock(t, "we_relock", "we_check")

\* a spurious wake-up of pthread_cond_wait
SpuriousWakeup(t) ==
  /\ qpc[t] \in {"pop_wait", "we_wait"}
  /\ qpc' = [qpc EXCEPT ![t] = Woken(qpc[t])]
  /\ UNCHANGED <<q_mutex, q, qcount, push_log, pop_log>>
  /\ UNCHANGED bvars

QNext ==
  \E t \in QSharers :
    \/ PushCall(t)
    \/ PushLock(t)
    \/ PushBody(t)
    \/ PopCall(t)
    \/ PopLock(t)
    \/ PopTake(t)
    \/ PopWait(t)
    \/ PopRelock(t)
    \/ WaitEmptyCall(t)
    \/ WaitEmptyLock(t)
    \/ WaitEmptyReturn(t)
    \/ WaitEmptyWait(t)
    \/ WaitEmptyRelock(t)
    \/ SpuriousWakeup(t)

\* the queue between producers and two consumers, no thread in wait_empty
PopNext ==
  \E t \in QProducers \cup QConsumers :
    \/ PushCall(t)
    \/ PushLock(t)
    \/ PushBody(t)
    \/ PopCall(t)
    \/ PopLock(t)
    \/ PopTake(t)
    \/ PopWait(t)
    \/ PopRelock(t)
    \/ SpuriousWakeup(t)

\* the steps of thread t inside push, pop or wait_empty: the thread is
\* runnable (it asks for the mutex, or owns it, or was woken), not blocked
\* in pthread_cond_wait
QRun(t) ==
  \/ PushLock(t)
  \/ PushBody(t)
  \/ PopLock(t)
  \/ PopTake(t)
  \/ PopWait(t)
  \/ PopRelock(t)
  \/ WaitEmptyLock(t)
  \/ WaitEmptyReturn(t)
  \/ WaitEmptyWait(t)
  \/ WaitEmptyRelock(t)

\* fair scheduling: a thread that stays runnable inside an operation of the
\* queue takes its next step; no thread has to call an operation, and no
\* spurious wake-up has to happen
QFair == \A t \in QThreads : WF_vars(QRun(t))

\* ------------------------------------------------------------------
\* Part 2: re_gen::Message_Processor  (message_processor.cxx)
\* ------------------------------------------------------------------
\* re_gen::Verbosity_Level, in the order of the msg_prefixes table
VERBOSITY_QUIET == 0
VERBOSITY_ERRORS == 1
VERBOSITY_MAJOR_STEPS == 2
VERBOSITY_MINOR_STEPS == 3
VERBOSITY_EVERYTHING == 4
Levels == VERBOSITY_QUIET..VERBOSITY_EVERYTHING

msg_prefixes ==
  <<"", "Error: ", "Info:  ", "Info:  ", "Debug: ">>

MESSAGE_PROCESSOR_VERBOSITY == VERBOSITY_EVERYTHING

\* enum Action
ACTION_KILL == "ACTION_KILL"
ACTION_DISPLAY_MSG == "ACTION_DISPLAY_MSG"

\* the thread that owns the broker object, and the threads that use it
Owner == "main"
Clients == {"t1", "t2"}
Callers == {Owner} \cup Clients
ImplThread == "impl_thread"

\* widths of int and of pthread_t / std::string::size_type (32 and 64 bits
\* in the build), scaled down to 8 and 16 bits to stay inside TLC's integers
IntMod == 2 ^ 8
LongMod == 2 ^ 16

\* pthread_self() of each thread: a value that fits an int, and values that
\* do not (pthread_t is an unsigned long)
pthread_self(t) ==
  CASE t = Owner -> 3
    [] t = "t1" -> 21
    [] t = "t2" -> 300
    [] t = ImplThread -> 977

\* conversion of a pthread_t to int (prev_tid = message_parms.tid)
to_int(tid) ==
  LET r == tid % IntMod IN IF r >= IntMod \div 2 THEN r - IntMod ELSE r

\* conversion of an int to pthread_t for message_parms.tid == prev_tid
to_ulong(i) == i % LongMod

\* texts of messages are sequences of characters; the literals of the code
kill_text ==
  <<"k", "i", "l", "l", "i", "n", "g", " ", "m", "e", "s", "s", "a", "g",
    "e", " ", "p", "r", "o", "c", "e", "s", "s", "o", "r">>
dtor_text ==
  <<"I", "m", "p", "l", ":", ":", "~", "I", "m", "p", "l">>
exit_text ==
  <<"I", "m", "p", "l", ":", ":", "r", "u", "n", " ", "-", " ", "e", "x",
    "i", "t">>
unknown_action_text ==
  <<"I", "m", "p", "l", ":", ":", "r", "u", "n", " ", "-", " ", "u", "n",
    "k", "n", "o", "w", "n", " ", "a", "c", "t", "i", "o", "n">>
started_text ==
  <<":", ":", "M", "e", "s", "s", "a", "g", "e", "_", "P", "r", "o", "c",
    "e", "s", "s", "o", "r", " ", "-", " ", "s", "t", "a", "r", "t", "e",
    "d", " ", "M", "e", "s", "s", "a", "g", "e", "_", "P", "r", "o", "c",
    "e", "s", "s", "o", "r">>

\* texts the clients pass to process_msg
Texts == {<<"m", "s", "g">>, <<"t", " ", ".">>}
\* ceilings and names the clients pass to register_msg_src
RegInputs == {<<VERBOSITY_EVERYTHING, "Net">>, <<VERBOSITY_ERRORS, "Db">>}
\* global ceilings passed to the constructor and to set_overall_verbosity
CtorLevels == {VERBOSITY_QUIET, VERBOSITY_MINOR_STEPS, VERBOSITY_EVERYTHING}
SetLevels == {VERBOSITY_QUIET, VERBOSITY_EVERYTHING}
\* severities the clients pass to process_msg
MsgLevels == {VERBOSITY_QUIET, VERBOSITY_ERRORS, VERBOSITY_EVERYTHING}
\* ticker texts of the clients that report progress
TickTexts == {<<"t", " ", ".">>, <<"u", " ", ".">>}
\* texts of every shape: empty, one character, the sentinel alone, a plain
\* text, a ticker text, and a text that starts with "::"
RenderTexts ==
  {<<>>, <<"x">>, <<" ", ".">>, <<"m", "s", "g">>, <<"t", " ", ".">>, <<":", ":", "f">>}
\* global ceilings and severities of the clients whose output is rendered
RenderLevels == {VERBOSITY_MINOR_STEPS, VERBOSITY_EVERYTHING}
RenderSeverities == {VERBOSITY_QUIET, VERBOSITY_ERRORS}

\* Message_Parms::Message_Parms
Message_Parms(action, tid, src, severity, msg) ==
  [action |-> action, tid |-> tid, src |-> src, severity |-> severity, msg |-> msg]

NoMessage == [action |-> "none"]

\* std::string::npos
npos == LongMod - 1

\* std::string::rfind(" ."): the last position (from 0) where " ." starts
rfind_tick(msg) ==
  LET hits == {i \in 0..(Len(msg) - 2) : msg[i + 1] = " " /\ msg[i + 2] = "."}
  IN IF hits = {} THEN npos ELSE CHOOSE i \in hits : \A j \in hits : j <= i

\* message_parms.msg.rfind(" .") == message_parms.msg.size() - 2
is_ticker(msg) == rfind_tick(msg) = (Len(msg) - 2) % LongMod

\* decimal digits of a non-negative number
RECURSIVE Digits(_)
Digits(n) ==
  IF n < 10 THEN <<ToString(n)>> ELSE Digits(n \div 10) \o <<ToString(n % 10)>>

\* std::setw(2) << tid
setw2(tid) == IF tid < 10 THEN <<" ">> \o Digits(tid) ELSE Digits(tid)

\* std::map::operator[] used as an rvalue: the entry is created with the
\* default value when it is missing
map_touch(map, key) == IF key \in DOMAIN map THEN map ELSE (key :> VERBOSITY_QUIET) @@ map

\* std::map::operator[] assignment
map_set(map, key, val) == (key :> val) @@ map

\* make_msg_to_display: the source prefix (name, and " - " unless msg starts with "::")
msg_src_str(names, mp) ==
  IF mp.src \in DOMAIN names
    THEN <<names[mp.src]>> \o
         (IF SubSeq(mp.msg, 1, IF Len(mp.msg) < 2 THEN Len(mp.msg) ELSE 2) # <<":", ":">>
            THEN <<" - ">> ELSE <<>>)
    ELSE <<>>

\* a make_msg_to_display without the test of line 128: Quiet messages get
\* the thread id, the label and the source name as well
msg_to_display_quiet_labelled(names, mp) ==
  <<"[">> \o setw2(mp.tid) \o <<"] ", msg_prefixes[mp.severity + 1], " ">>
  \o msg_src_str(names, mp) \o mp.msg
  \o (IF ~is_ticker(mp.msg) THEN <<"\n">> ELSE <<>>)

\* make_msg_to_display: the string assigned to *msg_to_display
msg_to_display(names, mp) ==
  IF mp.severity = VERBOSITY_QUIET
    THEN mp.msg
    ELSE <<"[">> \o setw2(mp.tid) \o <<"] ", msg_prefixes[mp.severity + 1], " ">>
         \o msg_src_str(names, mp) \o mp.msg
         \o (IF ~is_ticker(mp.msg) THEN <<"\n">> ELSE <<>>)

\* a render decision that would look at the ceiling of the source only
display_decision_source_only(verbs, overall, mp) ==
  mp.severity <= map_touch(verbs, mp.src)[mp.src]

\* make_msg_to_display: the value returned (the render decision)
display_decision(verbs, overall, mp) ==
  /\ mp.severity <= map_touch(verbs, mp.src)[mp.src]
  /\ mp.severity <= overall

tick_string == <<"\\b|", "\\b/", "\\b-", "\\b\\">>
mod_tick_string == <<"\\b!", "\\bX", "\\b=", "\\bV">>

\* one statement (or run of statements of one step) writing s to std::cerr
Write(by, s) == IF s = <<>> THEN out ELSE Append(out, [by |-> by, s |-> s])

\* the for loop of ~Impl gives up after this many waits
DtorPolls == 10

\* the log of the objects pushed, after a step that takes the queue from
\* before to after by pushing
Pushed(before, after) == pushed \o SubSeq(after, Len(before) + 1, Len(after))

\* a process_msg that would test the global ceiling only
process_msg_passes_global_only(verbs, overall, src, severity) ==
  severity <= overall

\* a process_msg that would enqueue every message
process_msg_passes_always(verbs, overall, src, severity) == TRUE

\* Message_Processor::process_msg: the test of line 280
process_msg_passes(verbs, overall, src, severity) ==
  severity <= overall /\ severity <= map_touch(verbs, src)[src]

\* Message_Processor::process_msg: the queue after the call
process_msg_queue(queue, verbs, overall, tid, src, severity, msg) ==
  IF process_msg_passes(verbs, overall, src, severity)
    THEN q_push(queue, Message_Parms(ACTION_DISPLAY_MSG, tid, src, severity, msg))
    ELSE queue

\* Message_Processor::process_msg: the verbosity map after the call
\* (operator[] is evaluated only when the first test passed)
process_msg_verbs(verbs, overall, src, severity) ==
  IF severity <= overall THEN map_touch(verbs, src) ELSE verbs

\* the texts of the Gen_Err exceptions thrown
AlreadyInitialized ==
  "Message_Processor::get_message_processor - Message_Processor singleton already initialized"
NeverInitialized ==
  "Message_Processor::get_message_processor - Message_Processor singleton was never initialized"
SpawnFailed == "error in pthread_mutex_init"

\* the owner thread may call the constructor: the call budget is not used
\* up and the owner is not inside delete pimpl
MayConstruct ==
  /\ ncalls < MaxCalls
  /\ dtor_pc \in {"idle", "done"}

\* a constructor without the test of line 234: the new object takes the slot
ConstructAgainOverwrites ==
  /\ MayConstruct
  /\ singleton # 0
  /\ ncalls' = ncalls + 1
  /\ ninst' = ninst + 1
  /\ singleton' = ninst + 1
  /\ ret' = [ret EXCEPT ![Owner] = [op |-> "ctor", inst |-> ninst + 1, err |-> "none"]]
  /\ UNCHANGED <<implvars, loopvars, out, dtorvars, cpc, reg_log, reg_overlap, pushed,
                 qvars>>

\* Message_Processor::Message_Processor, singleton already set: throws
ConstructAgain ==
  /\ MayConstruct
  /\ singleton # 0
  /\ ncalls' = ncalls + 1
  /\ ninst' = ninst + 1
  /\ ret' = [ret EXCEPT ![Owner] = [op |-> "ctor", inst |-> ninst + 1,
                                    err |-> AlreadyInitialized]]
  /\ UNCHANGED <<singleton, implvars, loopvars, out, dtorvars, cpc, reg_log,
                 reg_overlap>>
  /\ UNCHANGED <<pushed, qvars>>

\* a constructor that would release the singleton slot when it fails
singleton_after_failure_released(this) == 0

\* Message_Processor::Message_Processor, lines 237-246: the value of
\* singleton_message_processor after the constructor threw
singleton_after_failure(this) == this

\* Message_Processor::Message_Processor and Impl::Impl, pthread_create succeeds
ConstructOk(level) ==
  /\ MayConstruct
  /\ singleton = 0
  /\ ncalls' = ncalls + 1
  /\ ninst' = ninst + 1
  /\ singleton' = ninst + 1
  /\ impl' = "alive"
  /\ we_are_dead' = FALSE
  /\ is_processing' = FALSE
  /\ overall_verbosity' = level
  /\ message_source_name_map' = (0 :> "Message_Processor")
  /\ LET verbs == (0 :> MESSAGE_PROCESSOR_VERBOSITY) IN
       /\ message_source_verbosity_map' =
            process_msg_verbs(verbs, level, 0, VERBOSITY_EVERYTHING)
       /\ message_queue' =
            process_msg_queue(<<>>, verbs, level, pthread_self(Owner), 0,
                              VERBOSITY_EVERYTHING, started_text)
  /\ loop_pc' = "top"
  /\ ret' = [ret EXCEPT ![Owner] = [op |-> "ctor", inst |-> ninst + 1, err |-> "none"]]
  /\ UNCHANGED <<message_parms, tick_count, prev_msg, prev_tid, remembered_tid, prev_src,
                 prev_severity, popped, out, dtorvars, cpc, reg_log, reg_overlap>>
  /\ pushed' = Pushed(<<>>, message_queue')
  /\ UNCHANGED qvars

\* Message_Processor::Message_Processor and Impl::Impl, pthread_create fails:
\* Impl::Impl throws, the catch block reports and rethrows
ConstructSpawnFails(level) ==
  /\ MayConstruct
  /\ singleton = 0
  /\ ncalls' = ncalls + 1
  /\ ninst' = ninst + 1
  /\ singleton' = singleton_after_failure(ninst + 1)
  /\ out' = IF MESSAGE_PROCESSOR_VERBOSITY >= VERBOSITY_ERRORS /\ level >= VERBOSITY_ERRORS
              THEN out \o
                   <<[by |-> Owner, s |-> <<msg_prefixes[VERBOSITY_ERRORS + 1],
                                            "Impl::Impl - error in pthread_mutex_init\n">>],
                     [by |-> Owner, s |-> <<msg_prefixes[VERBOSITY_ERRORS + 1],
                        "Message_Processor::Message_Processor - unknown exception\n">>]>>
              ELSE out
  /\ ret' = [ret EXCEPT ![Owner] = [op |-> "ctor", inst |-> ninst + 1,
                                    err |-> SpawnFailed]]
  /\ UNCHANGED <<implvars, loopvars, dtorvars, cpc, reg_log, reg_overlap>>
  /\ UNCHANGED <<pushed, qvars>>

\* Message_Processor::get_message_processor
GetMessageProcessor(t) ==
  /\ ncalls < MaxCalls
  /\ cpc[t].pc = "idle"
  /\ ncalls' = ncalls + 1
  /\ ret' = [ret EXCEPT ![t] =
               IF singleton = 0
                 THEN [op |-> "get", inst |-> 0, err |-> NeverInitialized]
                 ELSE [op |-> "get", inst |-> singleton, err |-> "none"]]
  /\ UNCHANGED <<singleton, ninst, implvars, loopvars, dtorvars, cpc, reg_log,
                 reg_overlap, out>>
  /\ UNCHANGED <<pushed, qvars>>

\* Message_Processor::set_overall_verbosity
SetOverallVerbosity(t, level) ==
  /\ ncalls < MaxCalls
  /\ impl = "alive"
  /\ cpc[t].pc = "idle"
  /\ ncalls' = ncalls + 1
  /\ overall_verbosity' = level
  /\ UNCHANGED <<singleton, ninst, impl, we_are_dead, is_processing,
                 message_source_name_map, message_source_verbosity_map,
                 message_queue, loopvars, dtorvars, cpc, ret, reg_log,
                 reg_overlap, out>>
  /\ UNCHANGED <<pushed, qvars>>

\* Message_Processor::process_msg
ProcessMsg(t, src, severity, msg) ==
  /\ ncalls < MaxCalls
  /\ impl = "alive"
  /\ cpc[t].pc = "idle"
  /\ ncalls' = ncalls + 1
  /\ message_source_verbosity_map' =
       process_msg_verbs(message_source_verbosity_map, overall_verbosity, src, severity)
  /\ message_queue' =
       process_msg_queue(message_queue, message_source_verbosity_map,
                         overall_verbosity, pthread_self(t), src, severity, msg)
  /\ UNCHANGED <<singleton, ninst, impl, we_are_dead, is_processing,
                 overall_verbosity, message_source_name_map, loopvars, dtorvars,
                 cpc, ret, reg_log, reg_overlap, out>>
  /\ pushed' = Pushed(message_queue, message_queue')
  /\ UNCHANGED qvars

\* a register_msg_src written against the wrong map
register_id_from_verbosity_map(names, verbs) == Cardinality(DOMAIN verbs)

\* Message_Processor::register_msg_src, line 273: the id is the size of the name map
register_id(names, verbs) == Cardinality(DOMAIN names)

\* register_msg_src, line 273: read the size of the name map
RegisterRead(t, verbosity, src_str) ==
  /\ ncalls < MaxCalls
  /\ impl = "alive"
  /\ dtor_pc = "idle"
  /\ cpc[t].pc = "idle"
  /\ ncalls' = ncalls + 1
  /\ cpc' = [cpc EXCEPT ![t] =
               [pc |-> "reg_name", verbosity |-> verbosity, src_str |-> src_str,
                msg_src_id |-> register_id(message_source_name_map,
                                           message_source_verbosity_map),
                had_entry |-> Cardinality(DOMAIN message_source_name_map)
                                \in DOMAIN message_source_verbosity_map]]
  /\ reg_overlap' = (reg_overlap \/ \E u \in Clients \ {t} : cpc[u].pc # "idle")
  /\ UNCHANGED <<singleton, ninst, implvars, loopvars, dtorvars, ret, reg_log, out>>
  /\ UNCHANGED <<pushed, qvars>>

\* register_msg_src, line 274: store the name
RegisterName(t) ==
  /\ cpc[t].pc = "reg_name"
  /\ message_source_name_map' =
       map_set(message_source_name_map, cpc[t].msg_src_id, cpc[t].src_str)
  /\ cpc' = [cpc EXCEPT ![t].pc = "reg_verb"]
  /\ UNCHANGED <<singleton, ninst, impl, we_are_dead, is_processing,
                 overall_verbosity, message_source_verbosity_map, message_queue,
                 loopvars, dtorvars, ret, ncalls, reg_log, reg_overlap, out>>
  /\ UNCHANGED <<pushed, qvars>>

\* register_msg_src, lines 275-276: store the ceiling and return the id
RegisterVerbosity(t) ==
  /\ cpc[t].pc = "reg_verb"
  /\ message_source_verbosity_map' =
       map_set(message_source_verbosity_map, cpc[t].msg_src_id, cpc[t].verbosity)
  /\ cpc' = [cpc EXCEPT ![t] = [pc |-> "idle"]]
  /\ ret' = [ret EXCEPT ![t] = [op |-> "register", inst |-> cpc[t].msg_src_id,
                                err |-> "none"]]
  /\ reg_log' = Append(reg_log, [id |-> cpc[t].msg_src_id, name |-> cpc[t].src_str,
                                 verbosity |-> cpc[t].verbosity,
                                 had_entry |-> cpc[t].had_entry])
  /\ UNCHANGED <<singleton, ninst, impl, we_are_dead, is_processing,
                 overall_verbosity, message_source_name_map, message_queue,
                 loopvars, dtorvars, ncalls, reg_overlap, out>>
  /\ UNCHANGED <<pushed, qvars>>

\* ~Impl, line 95: push the status message
DtorPushKillMsg ==
  /\ impl = "alive"
  /\ dtor_pc = "idle"
  /\ \A t \in Clients : cpc[t].pc = "idle"
  /\ message_queue' =
       q_push(message_queue,
              Message_Parms(ACTION_DISPLAY_MSG, pthread_self(Owner), 0,
                            VERBOSITY_MINOR_STEPS, kill_text))
  /\ dtor_pc' = "push_kill"
  /\ UNCHANGED <<singleton, ninst, impl, we_are_dead, is_processing,
                 overall_verbosity, message_source_name_map,
                 message_source_verbosity_map, loopvars, dtor_i, dtor_timeout,
                 callvars, out>>
  /\ pushed' = Pushed(message_queue, message_queue')
  /\ UNCHANGED qvars

\* ~Impl, line 96: push the kill action
DtorPushKillAct ==
  /\ dtor_pc = "push_kill"
  /\ message_queue' =
       q_push(message_queue,
              Message_Parms(ACTION_KILL, pthread_self(Owner), 0, VERBOSITY_QUIET, <<>>))
  /\ dtor_pc' = "wait"
  /\ dtor_i' = 0
  /\ UNCHANGED <<singleton, ninst, impl, we_are_dead, is_processing,
                 overall_verbosity, message_source_name_map,
                 message_source_verbosity_map, loopvars, dtor_timeout, callvars, out>>
  /\ pushed' = Pushed(message_queue, message_queue')
  /\ UNCHANGED qvars

\* a wait loop without the bound on i
dtor_keeps_waiting_unbounded(dead, i) == ~dead

\* ~Impl, line 98: the condition of the for loop
dtor_keeps_waiting(dead, i) == ~dead /\ i < DtorPolls

\* ~Impl, lines 98-102: test the loop condition; sleep and count, or leave the loop
DtorWait ==
  /\ dtor_pc = "wait"
  /\ IF dtor_keeps_waiting(we_are_dead, dtor_i)
       THEN /\ dtor_i' = (IF dtor_i < DtorPolls THEN dtor_i + 1 ELSE dtor_i)
            /\ UNCHANGED <<dtor_pc, dtor_timeout>>
       ELSE /\ dtor_pc' = "report"
            /\ dtor_timeout' = ~we_are_dead
            /\ UNCHANGED dtor_i
  /\ UNCHANGED <<singleton, ninst, implvars, loopvars, callvars, out>>
  /\ UNCHANGED <<pushed, qvars>>

\* ~Impl, lines 103-107: the final diagnostic; then the members and the
\* object are released
DtorReport ==
  /\ dtor_pc = "report"
  /\ LET mp == Message_Parms(ACTION_DISPLAY_MSG, pthread_self(Owner), 0,
                             VERBOSITY_EVERYTHING, dtor_text) IN
       /\ out' = IF display_decision(message_source_verbosity_map, overall_verbosity, mp)
                   THEN Write(Owner, msg_to_display(message_source_name_map, mp) \o <<"\n">>)
                   ELSE out
       /\ message_source_verbosity_map' = map_touch(message_source_verbosity_map, mp.src)
  /\ impl' = "destroyed"
  /\ dtor_pc' = "done"
  /\ UNCHANGED <<singleton, ninst, we_are_dead, is_processing, overall_verbosity,
                 message_source_name_map, message_queue, loopvars, dtor_i,
                 dtor_timeout, callvars>>
  /\ UNCHANGED <<pushed, qvars>>

\* tick_count++ & 3, as an index into the glyph tables
tick_index(count) == (count % 4) + 1

\* loop, lines 158: top of the do loop
LoopTop ==
  /\ impl = "alive"
  /\ loop_pc = "top"
  /\ is_processing' = FALSE
  /\ loop_pc' = "pop"
  /\ UNCHANGED <<singleton, ninst, impl, we_are_dead, overall_verbosity,
                 message_source_name_map, message_source_verbosity_map,
                 message_queue, message_parms, tick_count, prev_msg, prev_tid, remembered_tid,
                 prev_src, prev_severity, popped, dtorvars, callvars, out>>
  /\ UNCHANGED <<pushed, qvars>>

\* loop, lines 159-160: message_queue.pop() returns once the queue is not empty
LoopPop ==
  /\ impl = "alive"
  /\ loop_pc = "pop"
  /\ message_queue # <<>>
  /\ message_parms' = q_front(message_queue)
  /\ message_queue' = q_pop(message_queue)
  /\ popped' = Append(popped, q_front(message_queue))
  /\ is_processing' = TRUE
  /\ loop_pc' = "dispatch"
  /\ UNCHANGED <<singleton, ninst, impl, we_are_dead, overall_verbosity,
                 message_source_name_map, message_source_verbosity_map,
                 tick_count, prev_msg, prev_tid, remembered_tid, prev_src, prev_severity,
                 dtorvars, callvars, out>>
  /\ UNCHANGED <<pushed, qvars>>

\* loop, line 162: ACTION_KILL
LoopKill ==
  /\ we_are_dead' = TRUE
  /\ UNCHANGED <<message_source_verbosity_map, tick_count, prev_msg, prev_tid, remembered_tid,
                 prev_src, prev_severity, out>>

\* loop, lines 164-166: an action that is neither kill nor display
LoopUnknownAction ==
  LET mp == Message_Parms(ACTION_DISPLAY_MSG, pthread_self(ImplThread), 0,
                          VERBOSITY_ERRORS, unknown_action_text) IN
    /\ out' = IF display_decision(message_source_verbosity_map, overall_verbosity, mp)
                THEN Write(ImplThread, msg_to_display(message_source_name_map, mp))
                ELSE out
    /\ message_source_verbosity_map' = map_touch(message_source_verbosity_map, mp.src)
    /\ UNCHANGED <<we_are_dead, tick_count, prev_msg, prev_tid, remembered_tid, prev_src,
                   prev_severity>>

\* a ticker branch where the ticker of another source or thread takes the
\* line over
LoopTickerPreempts(mp, m) ==
  /\ IF tick_count # 0 /\ mp.src = prev_src /\ mp.tid = to_ulong(prev_tid)
            /\ mp.msg = prev_msg
       THEN /\ out' = Write(ImplThread, <<tick_string[tick_index(tick_count)]>>)
            /\ tick_count' = tick_count + 1
            /\ UNCHANGED <<prev_src, prev_tid, remembered_tid, prev_msg>>
       ELSE /\ out' = Write(ImplThread,
                            (IF tick_count # 0 THEN <<"\n">> ELSE <<>>)
                            \o m \o <<tick_string[1]>>)
            /\ prev_src' = mp.src
            /\ prev_msg' = mp.msg
            /\ prev_tid' = to_int(mp.tid)
            /\ remembered_tid' = mp.tid
            /\ tick_count' = 1
  /\ UNCHANGED prev_severity

\* loop, lines 169-193: a ticker message that passed the filter
LoopTicker(mp, m) ==
  /\ IF tick_count # 0
       THEN /\ UNCHANGED <<prev_src, prev_tid, remembered_tid>>
            /\ IF mp.src = prev_src /\ mp.tid = to_ulong(prev_tid)
                 THEN IF mp.msg # prev_msg
                        THEN /\ out' = Write(ImplThread,
                                             <<"\n">> \o m \o <<tick_string[1]>>)
                             /\ prev_msg' = mp.msg
                             /\ tick_count' = 1
                        ELSE /\ out' = Write(ImplThread,
                                             <<tick_string[tick_index(tick_count)]>>)
                             /\ tick_count' = tick_count + 1
                             /\ UNCHANGED prev_msg
                 ELSE /\ out' = Write(ImplThread,
                                      <<mod_tick_string[tick_index(tick_count)]>>)
                      /\ tick_count' = tick_count + 1
                      /\ UNCHANGED prev_msg
       ELSE /\ out' = Write(ImplThread, m \o <<tick_string[1]>>)
            /\ prev_src' = mp.src
            /\ prev_msg' = mp.msg
            /\ prev_tid' = to_int(mp.tid)
            /\ remembered_tid' = mp.tid
            /\ tick_count' = 1
  /\ UNCHANGED prev_severity

\* loop, lines 195-207: a normal message that passed the filter
LoopNormal(mp, m) ==
  /\ out' = Write(ImplThread,
                  (IF tick_count # 0 THEN <<"\n">>
                   ELSE IF prev_severity = VERBOSITY_QUIET /\ mp.severity # VERBOSITY_QUIET
                          THEN <<"\n">> ELSE <<>>) \o m)
  /\ tick_count' = 0
  /\ prev_src' = mp.src
  /\ prev_msg' = mp.msg
  /\ prev_tid' = to_int(mp.tid)
  /\ remembered_tid' = mp.tid
  /\ prev_severity' = mp.severity

\* a loop that would remember a message it dropped as if it had written it
LoopDisplayDropRemembers ==
  /\ message_source_verbosity_map' =
       map_touch(message_source_verbosity_map, message_parms.src)
  /\ IF display_decision(message_source_verbosity_map, overall_verbosity, message_parms)
       THEN IF is_ticker(message_parms.msg)
              THEN LoopTicker(message_parms,
                              msg_to_display(message_source_name_map, message_parms))
              ELSE LoopNormal(message_parms,
                              msg_to_display(message_source_name_map, message_parms))
       ELSE /\ tick_count' = 0
            /\ prev_src' = message_parms.src
            /\ prev_msg' = message_parms.msg
            /\ prev_tid' = to_int(message_parms.tid)
            /\ remembered_tid' = message_parms.tid
            /\ prev_severity' = message_parms.severity
            /\ UNCHANGED out
  /\ UNCHANGED we_are_dead

\* loop, lines 167-209: ACTION_DISPLAY_MSG
LoopDisplay ==
  /\ message_source_verbosity_map' =
       map_touch(message_source_verbosity_map, message_parms.src)
  /\ IF display_decision(message_source_verbosity_map, overall_verbosity, message_parms)
       THEN IF is_ticker(message_parms.msg)
              THEN LoopTicker(message_parms,
                              msg_to_display(message_source_name_map, message_parms))
              ELSE LoopNormal(message_parms,
                              msg_to_display(message_source_name_map, message_parms))
       ELSE UNCHANGED <<tick_count, prev_msg, prev_tid, remembered_tid, prev_src,
                        prev_severity, out>>
  /\ UNCHANGED we_are_dead

\* a loop that would not stop after the kill action
loop_again_always(dead) == TRUE

\* loop, line 215: the condition of the do loop
loop_again(dead) == ~dead

\* loop, lines 161-215: dispatch on the action of the popped message, then
\* test the loop condition
LoopDispatch ==
  /\ impl = "alive"
  /\ loop_pc = "dispatch"
  /\ IF message_parms.action = ACTION_KILL THEN LoopKill
     ELSE IF message_parms.action # ACTION_DISPLAY_MSG THEN LoopUnknownAction
     ELSE LoopDisplay
  /\ loop_pc' = IF loop_again(we_are_dead') THEN "top" ELSE "exit"
  /\ UNCHANGED <<singleton, ninst, impl, is_processing, overall_verbosity,
                 message_source_name_map, message_queue, message_parms, popped,
                 dtorvars, callvars>>
  /\ UNCHANGED <<pushed, qvars>>

\* loop, lines 216-219: after the loop
LoopExit ==
  /\ impl = "alive"
  /\ loop_pc = "exit"
  /\ is_processing' = FALSE
  /\ LET mp == Message_Parms(ACTION_DISPLAY_MSG, pthread_self(ImplThread), 0,
                             VERBOSITY_MINOR_STEPS, exit_text) IN
       /\ out' = IF display_decision(message_source_verbosity_map, overall_verbosity, mp)
                   THEN Write(ImplThread,
                              msg_to_display(message_source_name_map, mp) \o <<"\n">>)
                   ELSE out
       /\ message_source_verbosity_map' = map_touch(message_source_verbosity_map, mp.src)
  /\ loop_pc' = "done"
  /\ UNCHANGED <<singleton, ninst, impl, we_are_dead, overall_verbosity,
                 message_source_name_map, message_queue, message_parms,
                 tick_count, prev_msg, prev_tid, remembered_tid, prev_src, prev_severity, popped,
                 dtorvars, callvars>>
  /\ UNCHANGED <<pushed, qvars>>

\* the consumer thread runs on after ~Impl released the object: it reads and
\* writes released memory, and nothing is known of what it does from there
LoopAfterRelease ==
  /\ impl = "destroyed"
  /\ loop_pc \in {"top", "pop", "dispatch", "exit"}
  /\ loop_pc' = "undefined"
  /\ UNCHANGED <<singleton, ninst, implvars, message_parms, tick_count, prev_msg,
                 prev_tid, remembered_tid, prev_src, prev_severity, popped, dtorvars,
                 callvars, out>>
  /\ UNCHANGED <<pushed, qvars>>

\* Queue::Queue: the mutex is free, the queue empty, no thread inside.
\* Before any Message_Processor is constructed: the singleton pointer is
\* null; the locals of loop hold the values lines 149-153 give them
Init ==
  /\ q_mutex = NoThread
  /\ q = <<>>
  /\ qpc = [t \in QThreads |-> "idle"]
  /\ qcount = [t \in QThreads |-> 0]
  /\ push_log = <<>>
  /\ pop_log = <<>>
  /\ singleton = 0
  /\ ninst = 0
  /\ impl = "none"
  /\ we_are_dead = FALSE
  /\ is_processing = FALSE
  /\ overall_verbosity = VERBOSITY_QUIET
  /\ message_source_name_map = <<>>
  /\ message_source_verbosity_map = <<>>
  /\ message_queue = <<>>
  /\ loop_pc = "none"
  /\ message_parms = NoMessage
  /\ tick_count = 0
  /\ prev_msg = <<>>
  /\ prev_tid = -1
  /\ remembered_tid = to_ulong(-1)
  /\ prev_src = -1
  /\ prev_severity = VERBOSITY_ERRORS
  /\ out = <<>>
  /\ dtor_pc = "idle"
  /\ dtor_i = 0
  /\ dtor_timeout = FALSE
  /\ cpc = [t \in Clients |-> [pc |-> "idle"]]
  /\ ret = [t \in Callers |-> [op |-> "none", inst |-> 0, err |-> "none"]]
  /\ ncalls = 0
  /\ reg_log = <<>>
  /\ reg_overlap = FALSE
  /\ popped = <<>>
  /\ pushed = <<>>

\* the steps of the owner thread inside delete pimpl
Destructor == DtorPushKillMsg \/ DtorPushKillAct \/ DtorWait \/ DtorReport

\* the steps of the consumer thread inside the do loop
LoopRun == LoopTop \/ LoopPop \/ LoopDispatch

\* the steps of the consumer thread
Loop == LoopRun \/ LoopExit \/ LoopAfterRelease

\* the message processor from construction to destruction: the owner
\* constructs (the thread may fail to start), constructs again and destroys;
\* a client asks for the singleton and sends messages meanwhile
LifeNext ==
  \/ ConstructAgain
  \/ \E level \in CtorLevels : ConstructOk(level)
  \/ \E level \in CtorLevels : ConstructSpawnFails(level)
  \/ Destructor
  \/ Loop
  \/ GetMessageProcessor("t1")
  \/ \E msg \in Texts : ProcessMsg("t1", 0, VERBOSITY_ERRORS, msg)

\* the message processor in use: clients register sources, send messages
\* and change the global ceiling while the consumer renders
UseNext ==
  \/ \E level \in CtorLevels : ConstructOk(level)
  \/ LoopRun
  \/ \E t \in Clients :
       \/ \E severity \in MsgLevels, msg \in Texts : ProcessMsg(t, 1, severity, msg)
       \/ \E r \in RegInputs : RegisterRead(t, r[1], r[2])
       \/ RegisterName(t)
       \/ RegisterVerbosity(t)
  \/ \E level \in SetLevels : SetOverallVerbosity("t2", level)

\* clients that report progress: two threads send ticker messages, as
\* Errors messages of source 0 and as Quiet messages of source 1 (which is
\* not registered), while the consumer renders
TickNext ==
  \/ \E level \in RenderLevels : ConstructOk(level)
  \/ LoopRun
  \/ \E t \in Clients, msg \in TickTexts :
       \/ ProcessMsg(t, 0, VERBOSITY_ERRORS, msg)
       \/ ProcessMsg(t, 1, VERBOSITY_QUIET, msg)

\* a client whose messages have texts of every shape, Quiet or Errors, and a
\* second client that sends Quiet messages of an unregistered source
RenderNext ==
  \/ \E level \in RenderLevels : ConstructOk(level)
  \/ LoopRun
  \/ \E severity \in RenderSeverities, msg \in RenderTexts :
       ProcessMsg("t1", 0, severity, msg)
  \/ \E msg \in TickTexts \cup {<<":", ":", "f">>} :
       ProcessMsg("t2", 1, VERBOSITY_QUIET, msg)

\* the queue alone, shared by its own threads
SpecQ == Init /\ [][QNext]_vars

\* the queue with one consumer under fair scheduling
SpecQFair == SpecQ /\ QFair

\* the queue between producers and two consumers under fair scheduling
SpecPopFair == Init /\ [][PopNext]_vars /\ QFair

\* the life of the message processor
SpecLife == Init /\ [][LifeNext]_vars

\* the life of the message processor when the owner thread keeps running:
\* the thread inside delete pimpl is runnable at every step of ~Impl (the
\* pushes do not block, select returns after its timeout), so the scheduler
\* lets it take its next step; nothing is assumed of the other threads
SpecLifeFair == SpecLife /\ WF_vars(Destructor)

\* the message processor in use
Spec == Init /\ [][UseNext]_vars

\* the message processor rendering tickers
SpecTick == Init /\ [][TickNext]_vars

\* the message processor rendering texts of every shape
SpecRender == Init /\ [][RenderNext]_vars

\* ------------------------------------------------------------------
\* Properties of the queue
\* ------------------------------------------------------------------
\* the objects of a log, in order
Objs(log) == [i \in 1..Len(log) |-> log[i].obj]

\* the subsequence of s made of the objects pushed by producer t
RECURSIVE OfProducer(_, _)
OfProducer(s, t) ==
  IF s = <<>> THEN <<>>
  ELSE IF s[1][1] = t THEN <<s[1]>> \o OfProducer(Tail(s), t)
       ELSE OfProducer(Tail(s), t)

\* s is a prefix of r
IsPrefix(s, r) == Len(s) <= Len(r) /\ SubSeq(r, 1, Len(s)) = s

\* C1: the popped objects are, in order, the first objects of the sequence
\* in which the pushes took the mutex; nothing is popped twice or popped
\* without having been pushed, what is not popped yet is still queued, and
\* each producer's objects come out in the order that producer pushed them.
C1_Fifo ==
  /\ IsPrefix(Objs(pop_log), push_log)
  /\ Objs(pop_log) \o q = push_log
  /\ \A i, j \in 1..Len(pop_log) : i # j => pop_log[i].obj # pop_log[j].obj
  /\ \A t \in QProducers :
       IsPrefix(OfProducer(Objs(pop_log), t),
                [k \in 1..MaxPush |-> Item(t, k)])

\* both producers have objects popped, interleaved: p2's first object came
\* out between two objects of p1
C1_Witness ==
  /\ Len(pop_log) >= 2
  /\ pop_log[1].obj = Item("p1", 1)
  /\ pop_log[2].obj = Item("p2", 1)
  /\ Len(push_log) >= 3
  /\ push_log[3] = Item("p1", 2)

\* C2: a step in which wait_empty returns is taken with the queue empty
C2_WaitEmptyReturnsEmpty ==
  [][\A t \in QWaiters :
       (qpc[t] \in {"we_check", "we_relock"} /\ qpc'[t] = "idle") => q = <<>>]_vars

\* wait_empty returned after having waited: its call is over while some
\* object has been pushed and popped
C2_Witness ==
  /\ qpc["w1"] = "idle"
  /\ qcount["w1"] = 1
  /\ Len(pop_log) >= 1
  /\ qpc["w2"] = "we_wait"

\* ------------------------------------------------------------------
\* Properties of the message processor
\* ------------------------------------------------------------------
\* the ceiling the code reads for a source: the entry of the verbosity map,
\* or the default value operator[] creates for an id that has none
SourceCeiling(src) ==
  IF src \in DOMAIN message_source_verbosity_map
    THEN message_source_verbosity_map[src] ELSE VERBOSITY_QUIET

\* the consumer thread takes the render decision for a display message
RenderStep ==
  /\ loop_pc = "dispatch"
  /\ loop_pc' # "dispatch"
  /\ message_parms.action = ACTION_DISPLAY_MSG

\* C3: when the consumer takes the render decision for a display message
\* and writes anything, the severity of the message is <= the global ceiling
\* and <= the ceiling of its source as they are at that step; a message
\* above either ceiling leaves the output as it was.
C3_RenderedOnlyWithinCeilings ==
  [][RenderStep =>
       /\ out' # out => /\ message_parms.severity <= overall_verbosity
                        /\ message_parms.severity <= SourceCeiling(message_parms.src)
       /\ (\/ message_parms.severity > overall_verbosity
           \/ message_parms.severity > SourceCeiling(message_parms.src)) => out' = out]_vars

\* an Errors message of source 1 was enqueued, the global ceiling was then
\* lowered to Quiet, and the consumer dropped it: only the start message is
\* in the output
C3_Witness ==
  /\ loop_pc = "top"
  /\ Len(popped) = 2
  /\ message_parms = popped[2]
  /\ message_parms.src = 1
  /\ message_parms.severity = VERBOSITY_ERRORS
  /\ overall_verbosity = VERBOSITY_QUIET
  /\ Len(out) = 1

\* C4: process_msg(src, severity, text) leaves the queue as it is when
\* severity is above the global ceiling or above the ceiling of the source,
\* and otherwise appends exactly one display message with the caller's
\* thread id, src, severity and text; for an Errors message of source 1
\* (registered at Everything) that the consumer handles under the global
\* ceiling MinorSteps the consumer writes to the output (the line of the
\* message when its text is no ticker text).
C4_ProcessMsgEnqueues ==
  /\ [][\A t \in Clients, severity \in MsgLevels, msg \in Texts :
          ProcessMsg(t, 1, severity, msg) =>
            message_queue' =
              IF severity > overall_verbosity \/ severity > SourceCeiling(1)
                THEN message_queue
                ELSE Append(message_queue,
                            [action |-> ACTION_DISPLAY_MSG, tid |-> pthread_self(t),
                             src |-> 1, severity |-> severity, msg |-> msg])]_vars
  /\ [][(/\ RenderStep
         /\ message_parms.src = 1
         /\ message_parms.severity = VERBOSITY_ERRORS
         /\ overall_verbosity = VERBOSITY_MINOR_STEPS
         /\ SourceCeiling(1) = VERBOSITY_EVERYTHING)
        => /\ Len(out') = Len(out) + 1
           /\ out'[Len(out')].by = ImplThread
           /\ message_parms.msg = <<"m", "s", "g">> =>
                LET s == out'[Len(out')].s IN
                  SubSeq(s, Len(s) - 3, Len(s)) = <<"m", "s", "g", "\n">>]_vars

\* source 1 is registered at Everything as "Net", the global ceiling is
\* MinorSteps, and the Errors message "msg" of thread t1 has been rendered
C4_Witness ==
  /\ overall_verbosity = VERBOSITY_MINOR_STEPS
  /\ SourceCeiling(1) = VERBOSITY_EVERYTHING
  /\ \E i \in 1..Len(out) :
       out[i].s = <<"[", "2", "1", "] ", "Error: ", " ", "Net", " - ",
                    "m", "s", "g", "\n">>

\* C10: as long as no two register_msg_src calls overlapped, the k-th call
\* returned id k and the maps hold its name and ceiling under k, whatever
\* process_msg calls and consumer steps happened; id 0 maps to
\* ("Message_Processor", Everything).
C10_RegisterIds ==
  /\ impl # "none" =>
       /\ 0 \in DOMAIN message_source_name_map
       /\ message_source_name_map[0] = "Message_Processor"
       /\ SourceCeiling(0) = VERBOSITY_EVERYTHING
  /\ ~reg_overlap =>
       \A k \in 1..Len(reg_log) :
         /\ reg_log[k].id = k
         /\ k \in DOMAIN message_source_name_map
         /\ message_source_name_map[k] = reg_log[k].name
         /\ SourceCeiling(k) = reg_log[k].verbosity

\* two calls that did not overlap returned 1 and 2; before the first one
\* process_msg had been called with the id 1, then unregistered, and had
\* created a default entry of the verbosity map
C10_Witness ==
  /\ ~reg_overlap
  /\ Len(reg_log) = 2
  /\ reg_log[1].had_entry
  /\ reg_log[1].name # reg_log[2].name
  /\ ret["t1"].op = "register"
  /\ ret["t1"].inst = 2

\* the first kill action in the log of pushes is at position k
FirstKill(k) ==
  /\ pushed[k].action = ACTION_KILL
  /\ \A j \in 1..(k - 1) : pushed[j].action # ACTION_KILL

\* the status message ~Impl pushes before the kill action
StatusMessage ==
  [action |-> ACTION_DISPLAY_MSG, tid |-> pthread_self(Owner), src |-> 0,
   severity |-> VERBOSITY_MINOR_STEPS, msg |-> kill_text]

\* C5 (as amended): we_are_dead is true only when the consumer has dequeued,
\* in the order of the pushes, every message pushed up to the kill action and
\* nothing after it; the status message of ~Impl is among them, and only
\* messages of other threads come between it and the kill action; once
\* we_are_dead is true it stays true and nothing more is dequeued.
C5_KillIsLast ==
  /\ [](we_are_dead =>
          \E k \in 1..Len(pushed) :
            /\ FirstKill(k)
            /\ popped = SubSeq(pushed, 1, k)
            /\ \E j \in 1..(k - 1) :
                 /\ pushed[j] = StatusMessage
                 /\ \A i \in (j + 1)..(k - 1) : pushed[i].tid # pthread_self(Owner))
  /\ [][we_are_dead => (we_are_dead' /\ popped' = popped)]_vars

\* the consumer is dead after a message of thread t1 came between the
\* status message and the kill action, and a message pushed after the kill
\* action stays in the queue
C5_Witness ==
  /\ we_are_dead
  /\ Len(popped) >= 3
  /\ popped[Len(popped) - 2] = StatusMessage
  /\ popped[Len(popped) - 1].tid = pthread_self("t1")
  /\ popped[Len(popped)].action = ACTION_KILL
  /\ message_queue # <<>>

\* C5 (as claimed): when we_are_dead is true, the message dequeued
\* immediately before the kill action is the status message of ~Impl.
C5_StatusImmediatelyBeforeKill ==
  we_are_dead =>
    /\ Len(popped) >= 2
    /\ popped[Len(popped)].action = ACTION_KILL
    /\ popped[Len(popped) - 1] = StatusMessage

\* C6: once ~Impl has pushed the status message and the kill action it
\* reaches its end, after at most ten waits, whatever the consumer thread
\* does or does not do; and no step of ~Impl moves the consumer thread.
C6_DestructorTerminates ==
  /\ (dtor_pc = "wait") ~> (dtor_pc = "done")
  /\ [](dtor_i <= DtorPolls)
  /\ [][(dtor_pc' # dtor_pc \/ dtor_i' # dtor_i) => loop_pc' = loop_pc]_vars

\* ~Impl is over after ten waits while the consumer thread, which never ran
\* after the construction, has not seen the kill action
C6_Witness ==
  /\ dtor_pc = "done"
  /\ dtor_i = DtorPolls
  /\ dtor_timeout
  /\ ~we_are_dead
  /\ loop_pc = "top"
  /\ popped = <<>>

\* what ~Impl writes when the consumer died within the bound (and the
\* global ceiling is Everything)
DtorDiagnosticWhenDead ==
  <<"[", " ", "3", "] ", "Debug: ", " ", "Message_Processor", " - ",
    "I", "m", "p", "l", ":", ":", "~", "I", "m", "p", "l", "\n", "\n">>

\* C7: when the wait of ~Impl ended with we_are_dead false, ~Impl has
\* written a diagnostic, and it is not the one written when the consumer
\* died within the bound.
C7_TimeoutDiagnostic ==
  (dtor_pc = "done" /\ dtor_timeout) =>
    \E i \in 1..Len(out) : out[i].by = Owner /\ out[i].s # DtorDiagnosticWhenDead

\* C8: a constructor call made while the singleton pointer is set throws
\* "already initialized" and changes nothing of the existing instance;
\* get_message_processor throws "never initialized" while the pointer is
\* null and returns the pointer otherwise, which is the instance of the
\* successful construction from then on.
C8_SingletonErrors ==
  /\ [][(ninst' = ninst + 1 /\ singleton # 0) =>
          /\ ret'[Owner] = [op |-> "ctor", inst |-> ninst', err |-> AlreadyInitialized]
          /\ UNCHANGED <<singleton, implvars, loopvars, out, pushed>>]_vars
  /\ [][\A t \in Clients :
          (ret'[t] # ret[t] /\ ret'[t].op = "get") =>
             \/ singleton = 0 /\ ret'[t].err = NeverInitialized
             \/ singleton # 0 /\ ret'[t].err = "none" /\ ret'[t].inst = singleton]_vars
  /\ [][(impl = "none" /\ impl' = "alive") =>
          (ret'[Owner].err = "none" /\ singleton' = ret'[Owner].inst)]_vars
  /\ [][singleton # 0 => singleton' = singleton]_vars

\* a second construction was refused while the first instance is alive and
\* get_message_processor returned the first instance
C8_Witness ==
  /\ impl = "alive"
  /\ singleton = 1
  /\ ret[Owner] = [op |-> "ctor", inst |-> 2, err |-> AlreadyInitialized]
  /\ ret["t1"] = [op |-> "get", inst |-> 1, err |-> "none"]

\* C9: after a constructor call that failed to start the thread the
\* singleton pointer is null: while no instance exists get_message_processor
\* throws "never initialized" and no constructor call is refused as
\* "already initialized".
C9_SlotReleasedAfterSpawnFailure ==
  /\ ret[Owner].err = SpawnFailed => singleton = 0
  /\ (impl = "none" /\ ret["t1"].op = "get") => ret["t1"].err = NeverInitialized
  /\ impl = "none" => ret[Owner].err # AlreadyInitialized

\* C11: whatever the interleaving of the register_msg_src calls of several
\* threads, no two calls returned the same id, and the maps hold under the
\* id each call returned the name and the ceiling that call was given.
C11_RegisterConcurrent ==
  \A i \in 1..Len(reg_log) :
    /\ \A j \in 1..Len(reg_log) : i # j => reg_log[i].id # reg_log[j].id
    /\ reg_log[i].id \in DOMAIN message_source_name_map
    /\ message_source_name_map[reg_log[i].id] = reg_log[i].name
    /\ SourceCeiling(reg_log[i].id) = reg_log[i].verbosity

\* a text that ends with the two characters of the ticker sentinel
EndsWithSentinel(msg) ==
  /\ Len(msg) >= 2
  /\ msg[Len(msg) - 1] = " "
  /\ msg[Len(msg)] = "."

\* the message is within the global ceiling and the ceiling of its source
WithinCeilings(mp) ==
  /\ mp.severity <= overall_verbosity
  /\ mp.severity <= SourceCeiling(mp.src)

\* the consumer renders a ticker message
TickerStep ==
  /\ RenderStep
  /\ WithinCeilings(message_parms)
  /\ EndsWithSentinel(message_parms.msg)

\* the consumer is ticking and the message in hand has the source, the
\* thread id and the text of the ticker that opened the line
SameTicker ==
  /\ tick_count # 0
  /\ message_parms.src = prev_src
  /\ message_parms.tid = remembered_tid
  /\ message_parms.msg = prev_msg

\* the output after the consumer wrote s in this step
Written(s) == Append(out, [by |-> ImplThread, s |-> s])

\* C12: a rendered ticker message that arrives when the consumer is not
\* ticking prints its full line and the first glyph of the normal rotation;
\* a rendered ticker message with the source, thread id and text of the
\* ticker that opened the line prints only the next glyph of the normal
\* rotation and advances the glyph index by one - for every thread id.
C12_SameTickerRepeats ==
  [][TickerStep =>
       /\ tick_count = 0 =>
            out' = Written(msg_to_display(message_source_name_map, message_parms)
                           \o <<tick_string[1]>>)
       /\ SameTicker =>
            /\ out' = Written(<<tick_string[tick_index(tick_count)]>>)
            /\ tick_count' = tick_count + 1]_vars

\* C13: a rendered message whose text does not end with " ." and that
\* arrives while the line of a ticker is open is written after exactly one
\* line break, and the consumer stops ticking, whatever the severities of
\* the ticker and of the message.
C13_LineBreakAfterTicker ==
  [][(/\ RenderStep
      /\ WithinCeilings(message_parms)
      /\ ~EndsWithSentinel(message_parms.msg)
      /\ tick_count # 0
      /\ EndsWithSentinel(prev_msg))
     => /\ out' = Written(<<"\n">>
                          \o msg_to_display(message_source_name_map, message_parms))
        /\ tick_count' = 0]_vars

\* the glyphs of the two rotations
Glyphs == {tick_string[i] : i \in 1..4} \cup {mod_tick_string[i] : i \in 1..4}

\* what the loop may write for a message whose rendered text is m: m itself,
\* after a line break of the loop or before a glyph, or a glyph alone
LoopWrites(m) ==
  {lead \o m \o trail : lead \in {<<>>, <<"\n">>},
                        trail \in {<<>>} \cup {<<g>> : g \in Glyphs}}
    \cup {<<g>> : g \in Glyphs}

\* C14: the rendered text of a Quiet message that passes the filter is the
\* text of the message, and what the consumer writes for it is that text
\* with nothing added but the line break or the glyph of the ticker logic:
\* no thread id, no label, no source name, no separator, no line break
\* after the text.
C14_QuietVerbatim ==
  [][(/\ RenderStep
      /\ WithinCeilings(message_parms)
      /\ message_parms.severity = VERBOSITY_QUIET)
     => /\ msg_to_display(message_source_name_map, message_parms) = message_parms.msg
        /\ \/ out' = out /\ message_parms.msg = <<>>
           \/ /\ Len(out') = Len(out) + 1
              /\ out'[Len(out')].s \in LoopWrites(message_parms.msg)]_vars

\* the consumer wrote the Quiet message "msg" of source 0 (which has a
\* name) as the three characters alone, and the Quiet message "::f" of the
\* unregistered source 1 as well
C14_Witness ==
  /\ \E i \in 1..Len(out) : out[i].s = <<"m", "s", "g">>
  /\ \E i \in 1..Len(out) : out[i].s \in {<<":", ":", "f">>, <<"\n", ":", ":", "f">>}
  /\ \E i \in 1..Len(popped) :
       /\ popped[i].severity = VERBOSITY_QUIET
       /\ popped[i].src = 0
       /\ popped[i].msg = <<"m", "s", "g">>

\* C15: a rendered message goes through the ticker branch of the loop if
\* and only if its text has at least two characters and ends with " .",
\* and the rendered text of a message that is not Quiet ends with a line
\* break if and only if its text does not end with " .".
C15_TickerIffSentinel ==
  [][(RenderStep /\ WithinCeilings(message_parms))
     => /\ tick_count' # 0 <=> EndsWithSentinel(message_parms.msg)
        /\ message_parms.severity # VERBOSITY_QUIET =>
             LET m == msg_to_display(message_source_name_map, message_parms) IN
               (m[Len(m)] = "\n") <=> ~EndsWithSentinel(message_parms.msg)]_vars

\* C16: the ceilings are applied at enqueue time and again at render time.
\* A message the consumer takes while the global ceiling is below its
\* severity is not written and leaves the ticker state alone, also when it
\* was enqueued under a higher ceiling. A process_msg call whose message is
\* above a ceiling enqueues nothing; the consumer takes only what was
\* enqueued, in order, and writes only for the message it took, so a
\* message dropped at enqueue time is never written, whatever
\* set_overall_verbosity does afterwards.
C16_FilteredTwice ==
  /\ [][(RenderStep /\ message_parms.severity > overall_verbosity) =>
          UNCHANGED <<out, tick_count, prev_msg, prev_src, prev_tid, prev_severity>>]_vars
  /\ [][\A t \in Clients, severity \in MsgLevels, msg \in Texts :
          (/\ ProcessMsg(t, 1, severity, msg)
           /\ \/ severity > overall_verbosity
              \/ severity > SourceCeiling(1))
          => UNCHANGED <<message_queue, pushed>>]_vars
  /\ [](popped \o message_queue = pushed)
  /\ [][out' # out =>
          /\ RenderStep
          /\ Len(popped) >= 1
          /\ message_parms = popped[Len(popped)]]_vars

\* the start message was enqueued under the ceiling Everything, the ceiling
\* was lowered to Quiet before the consumer took it, and the consumer
\* dropped it; the ceiling is Everything again and nothing was written
C16_Witness ==
  /\ Len(pushed) = 1
  /\ pushed[1].severity = VERBOSITY_EVERYTHING
  /\ popped = pushed
  /\ loop_pc = "top"
  /\ out = <<>>
  /\ overall_verbosity = VERBOSITY_EVERYTHING
  /\ ncalls >= 3

\* ------------------------------------------------------------------
\* Properties of the queue under fair scheduling
\* ------------------------------------------------------------------
\* C17: a thread blocked in wait_empty does not stay blocked while the
\* queue stays empty: whenever the queue is empty and a thread is blocked in
\* wait_empty, that thread returns or the queue gets an element again -
\* for every thread blocked in wait_empty.
C17_AllWaitersReturn ==
  \A w \in QWaiters :
    (qpc[w] = "we_wait" /\ q = <<>>) ~> (qpc[w] = "idle" \/ q # <<>>)

\* the number of pop calls made so far
RECURSIVE PopCalls(_)
PopCalls(S) ==
  IF S = {} THEN 0
  ELSE LET c == CHOOSE x \in S : TRUE IN qcount[c] + PopCalls(S \ {c})

\* C18: no wake-up is lost between push and pop. A thread does not stay
\* blocked in pop while the queue stays non-empty; and in the end, when at
\* least as many objects were pushed as pop was called, every pop call has
\* returned - with one or two consumers, whatever the interleaving and
\* the spurious wake-ups.
C18_NoLostWakeup ==
  /\ \A c \in QConsumers :
       (qpc[c] = "pop_wait" /\ q # <<>>) ~> (qpc[c] # "pop_wait" \/ q = <<>>)
  /\ <>[](Len(push_log) >= PopCalls(QConsumers) =>
            \A c \in QConsumers : qpc[c] = "idle")

\* both consumers were blocked in pop and a push released c1, which has not
\* taken the mutex back: the queue holds an object while c2 is still blocked
C18_Witness ==
  /\ q # <<>>
  /\ qpc["c1"] = "pop_relock"
  /\ qpc["c2"] = "pop_wait"

\* ------------------------------------------------------------------
\* Properties of the ticker logic
\* ------------------------------------------------------------------
\* C19: while the consumer is ticking, a rendered ticker message with the
\* source and the thread id of the ticker that opened the line but another
\* text is written as a line break, its full line and the first glyph of
\* the normal rotation; the remembered text becomes the new text, the glyph
\* index 1, and the remembered source and thread stay.
C19_SameTickerNewText ==
  [][(/\ TickerStep
      /\ tick_count # 0
      /\ message_parms.src = prev_src
      /\ message_parms.tid = remembered_tid
      /\ message_parms.msg # prev_msg)
     => /\ out' = Written(<<"\n">>
                          \o msg_to_display(message_source_name_map, message_parms)
                          \o <<tick_string[1]>>)
        /\ prev_msg' = message_parms.msg
        /\ tick_count' = 1
        /\ UNCHANGED <<prev_src, prev_tid, remembered_tid>>]_vars

\* C20: while the consumer is ticking, a rendered ticker message of another
\* source or another thread than the ticker that opened the line is written
\* as the next glyph of the interrupted rotation alone, advances the glyph
\* index by one and leaves the remembered source, thread and text as they
\* are; a ticker message with the remembered source, thread and text is
\* written as one glyph alone, also after such interruptions.
C20_OtherTickerNeverPreempts ==
  /\ [][(/\ TickerStep
         /\ tick_count # 0
         /\ \/ message_parms.src # prev_src
            \/ message_parms.tid # remembered_tid)
        => /\ out' = Written(<<mod_tick_string[tick_index(tick_count)]>>)
           /\ tick_count' = tick_count + 1
           /\ UNCHANGED <<prev_src, prev_tid, remembered_tid, prev_msg>>]_vars
  /\ [][(TickerStep /\ SameTicker)
        => /\ \E g \in Glyphs : out' = Written(<<g>>)
           /\ UNCHANGED <<prev_src, prev_tid, remembered_tid, prev_msg>>]_vars

\* a ticker opened the line, the ticker of another thread or source got the
\* second glyph of the interrupted rotation, and the first ticker, sent
\* again, got a glyph alone
C20_Witness ==
  /\ Len(popped) = 3
  /\ Len(out) = 3
  /\ loop_pc = "top"
  /\ popped[3] = popped[1]
  /\ \/ popped[2].tid # popped[1].tid
     \/ popped[2].src # popped[1].src
  /\ Len(out[1].s) > 1
  /\ out[2].s = <<mod_tick_string[2]>>
  /\ \E g \in Glyphs : out[3].s = <<g>>

\* ------------------------------------------------------------------
\* Properties of the rendering and of the end of the consumer thread
\* ------------------------------------------------------------------
\* C21: the rendered text of a message that passes the filter, of any
\* severity, ends with a line break if and only if the text of the message
\* does not end with " .".
C21_LineBreakUnlessSentinel ==
  [][(RenderStep /\ WithinCeilings(message_parms))
     => LET m == msg_to_display(message_source_name_map, message_parms) IN
          (Len(m) > 0 /\ m[Len(m)] = "\n") <=> ~EndsWithSentinel(message_parms.msg)]_vars

\* the ceiling the code would read for source src in the verbosity map verbs
CeilingIn(verbs, src) == IF src \in DOMAIN verbs THEN verbs[src] ELSE VERBOSITY_QUIET

\* C22: a display message the consumer finds above the global ceiling or
\* above the ceiling of its source is dropped: nothing is written, the
\* ticker state (glyph index, remembered source, thread and text) and the
\* remembered severity stay as they are, no ceiling and no name changes,
\* and the loop goes on to the next message.
C22_DropChangesNothing ==
  [][(RenderStep /\ ~WithinCeilings(message_parms))
     => /\ UNCHANGED <<out, tick_count, prev_msg, prev_src, prev_tid, remembered_tid,
                       prev_severity>>
        /\ UNCHANGED <<we_are_dead, overall_verbosity, message_source_name_map>>
        /\ \A src \in 0..3 :
             CeilingIn(message_source_verbosity_map', src)
               = CeilingIn(message_source_verbosity_map, src)
        /\ loop_pc' = "top"]_vars

\* the start message was enqueued under Everything and dropped by the
\* consumer under Quiet; the Quiet ticker that followed was written as the
\* first message the loop ever wrote: full text, first glyph, and the
\* remembered severity still is the initial one
C22_Witness ==
  /\ Len(popped) = 2
  /\ popped[1].severity = VERBOSITY_EVERYTHING
  /\ popped[2].severity = VERBOSITY_QUIET
  /\ loop_pc = "top"
  /\ out = <<[by |-> ImplThread, s |-> <<"t", " ", ".", tick_string[1]>>]>>
  /\ tick_count = 1
  /\ prev_severity = VERBOSITY_ERRORS

\* C23: once ~Impl has returned and the object is released, the consumer
\* thread has no step left: it is past the end of loop.
C23_NoConsumerStepAfterRelease ==
  impl = "destroyed" => loop_pc = "done"
====
